---- MODULE Spec2Model ----
(***************************************************************************)
(* A model of the AudioStreaming Ogg/Vorbis bridges.                       *)
(*                                                                         *)
(*   Part I  : the bounded ring buffer of VorbisFileBridge.c with its      *)
(*             producer (VFStreamPush, VFStreamMarkEOF) and its consumer   *)
(*             callbacks (read_cb, seek_cb, tell_cb).                      *)
(*   Part II : the decode session of OggVorbisBridge.c (processOggPage,    *)
(*             OggVorbisDecoderInit / ProcessData / GetPCMData / Reset).   *)
(*                                                                         *)
(* Every critical section of the ring buffer runs under the mutex s->m,    *)
(* so each is one atomic action; VFStreamPush is cut at pthread_cond_wait, *)
(* the only place where it releases the mutex.                             *)
(***************************************************************************)
EXTENDS Integers, Sequences, FiniteSets, TLC

(***************************************************************************)
(* Bounds of the model.                                                    *)
(***************************************************************************)
\* largest capacity handed to VFStreamCreate
MaxCap == 2
\* largest len of one VFStreamPush call
MaxPush == 3
\* total number of bytes handed to VFStreamPush in one behaviour
MaxTotal == 3
\* largest nmemb of a read_cb call
MaxNmemb == 2
\* seek offsets range over -MaxOff .. MaxOff
MaxOff == 2
\* largest granule position of an audio packet
MaxGranule == 2
\* largest number of samples decoded from one audio packet
MaxSamples == 1
\* largest number of packets in one page
MaxPagePackets == 2
\* largest number of tokens handed over in one call
MaxChunk == 2
\* total number of tokens handed over in one behaviour of SpecSession
MaxFed == 7
\* total number of tokens handed over in one behaviour of SpecPlayback
MaxFedValid == 9
\* tokens handed to a session before it is reset and used again
MaxFirst == 6
\* vi.channels, the channel count of the stream
Channels == 2
\* largest number of comments in the comment header of a stream
MaxComments == 2
\* largest length of one comment string
MaxCommentLen == 2

(***************************************************************************)
(* Program constants.                                                      *)
(***************************************************************************)
\* whence values of <stdio.h>, and one value that is none of them
SEEK_SET == 0
SEEK_CUR == 1
SEEK_END == 2
SEEK_BAD == 3

Min(a, b) == IF a <= b THEN a ELSE b

Max(a, b) == IF a >= b THEN a ELSE b

--------------------------------------------------------------------------
(***************************************************************************)
(* Part I: state of struct VFRemoteStream, plus the threads' positions     *)
(* and the observations the claims are about.                              *)
(***************************************************************************)
VARIABLES
    cap,            \* s->cap
    buf,            \* s->buf, a function 0..cap-1 -> byte
    head,           \* s->head (size_t; a negative value h stands for 2^64 + h)
    tail,           \* s->tail
    size,           \* s->size
    eof,            \* s->eof
    pos,            \* s->pos
    total_pushed,   \* s->total_pushed
    ppc,            \* producer: "idle", "wait" (in pthread_cond_wait), "woken"
    pdata,          \* producer: the data argument of the running VFStreamPush
    written_total,  \* producer: the local written_total of VFStreamPush
    pushInfo,       \* observation: the running / last VFStreamPush call
    offered,        \* observation: bytes handed to VFStreamPush so far
    ringLog,        \* observation: bytes stored into the ring, in memcpy order
    readOut,        \* observation: bytes returned by read_cb since the last
                    \*              successful seek_cb (since creation if none)
    seeked,         \* observation: a seek_cb has succeeded
    last,           \* observation: the last consumer call and its result
    zeroReads,      \* observation: what the caller saw at each read of 0 bytes
    mutex,          \* s->m: "none" or the thread that holds it
    thr,            \* per thread: the operation it is in and how far it is
    bare            \* observation: the field accesses made without s->m held

lockVars == <<mutex, thr, bare>>

ringVars == <<cap, buf, head, tail, size, eof, pos, total_pushed, ppc, pdata,
              written_total, pushInfo, offered, ringLog, readOut, seeked,
              last, zeroReads, lockVars>>

\* the content of memory outside the allocation s->buf (never a pushed byte)
OOB == 255

\* the byte the producer pushes at stream offset k: the ring only copies
\* bytes, so each carries its stream offset, which makes loss, duplication
\* and reordering visible
ByteAt(k) == k % 255

\* 2^64 mod m, for the value of a wrapped size_t taken modulo s->cap
RECURSIVE Pow2Mod(_, _)
Pow2Mod(k, m) == IF k = 0 THEN 1 % m ELSE (2 * Pow2Mod(k - 1, m)) % m

\* (size_t h) % c, where a negative h stands for the wrapped value 2^64 + h
SizeTMod(h, c) == IF h >= 0 THEN h % c ELSE (Pow2Mod(64, c) + (h % c)) % c

\* *(s->buf + i): inside the allocation the stored byte, outside it unknown
Peek(b, i) == IF i \in DOMAIN b THEN b[i] ELSE OOB


(***************************************************************************)
(* rb_write and rb_read, loop by loop.                                     *)
(***************************************************************************)
\* WriteChunk without line 24 (the clamp to the end of the array): the
\* copy runs past buf + cap and the bytes beyond it never reach the ring
WriteChunkNoWrapClamp(t, sz, remaining) == Min(remaining, cap - sz)

\* lines 22-26: the chunk of one iteration of rb_write.  free_space is the
\* size_t difference cap - size: when size > cap it wraps to a value above
\* 2^63, which no longer limits the chunk.
WriteChunk(t, sz, remaining) ==
    LET c == Min(cap - t, remaining)
    IN IF sz <= cap THEN Min(c, cap - sz) ELSE c

\* lines 19-33: returns the ring after the write, the number of bytes
\* written, and the bytes copied by memcpy in copy order
RECURSIVE rb_write(_, _, _, _, _, _)
rb_write(b, t, sz, src, written, log) ==
    IF written >= Len(src) \/ sz = cap
    THEN [buf |-> b, tail |-> t, size |-> sz, written |-> written, log |-> log]
    ELSE LET chunk == WriteChunk(t, sz, Len(src) - written)
             b2 == [i \in DOMAIN b |->
                      IF i >= t /\ i < t + chunk THEN src[written + (i - t) + 1]
                      ELSE b[i]]
         IN rb_write(b2, (t + chunk) % cap, sz + chunk, src, written + chunk,
                     log \o SubSeq(src, written + 1, written + chunk))

\* ReadChunk without line 40 (the clamp to the resident size)
ReadChunkNoSizeClamp(h, sz, remaining) == Min(cap - h, remaining)

\* lines 39-41: the chunk of one iteration of rb_read.  cap - head is a
\* size_t difference: for a wrapped head 2^64 + h it is cap - h.
ReadChunk(h, sz, remaining) == Min(Min(cap - h, sz), remaining)

\* lines 36-48: returns head and size after the read and the bytes copied
RECURSIVE rb_read(_, _, _, _, _)
rb_read(b, h, sz, len, out) ==
    IF Len(out) < len /\ sz > 0
    THEN LET chunk == ReadChunk(h, sz, len - Len(out))
         IN rb_read(b, SizeTMod(h + chunk, cap), sz - chunk, len,
                    out \o [i \in 1..chunk |-> Peek(b, h + i - 1)])
    ELSE [head |-> h, size |-> sz, out |-> out]

(***************************************************************************)
(* The condition variable s->cv.  Its only waiter is the producer.         *)
(***************************************************************************)
\* pthread_cond_broadcast(&s->cv)
Broadcast(p) == IF p = "wait" THEN "woken" ELSE p

(***************************************************************************)
(* Initial state: VFStreamCreate(capacity_bytes), capacity_bytes >= 1.     *)
(* calloc zeroes the struct; the bytes of buf are never read before they   *)
(* are written, they start as OOB.                                         *)
(***************************************************************************)
NoCall == [op |-> "none", ret |-> 0, n |-> 0]

Threads == {"producer", "consumer"}

NoOp == [op |-> "none", pc |-> "idle"]

NoPush == [N |-> 0, F |-> 0, consumed |-> 0, marked |-> FALSE]

VFStreamCreate ==
    /\ cap \in 1..MaxCap
    /\ buf = [i \in 0..(cap - 1) |-> OOB]
    /\ head = 0 /\ tail = 0 /\ size = 0 /\ eof = 0
    /\ pos = 0 /\ total_pushed = 0
    /\ ppc = "idle" /\ pdata = <<>> /\ written_total = 0
    /\ pushInfo = NoPush
    /\ offered = 0 /\ ringLog = <<>> /\ readOut = <<>> /\ seeked = FALSE
    /\ last = NoCall
    /\ zeroReads = {}
    /\ mutex = "none" /\ thr = [t \in Threads |-> NoOp] /\ bare = {}

\* VFStreamAvailableBytes (lines 73-80)
VFStreamAvailableBytes == size

\* tell_cb (lines 217-220)
tell_cb == pos

\* what the caller of a read holds afterwards: the value read_cb returned
\* and what the stream API of VorbisFileBridge.h lets it ask the buffer
CallerView(ret) == <<ret, VFStreamAvailableBytes>>

(***************************************************************************)
(* Producer.                                                               *)
(***************************************************************************)
\* a faulty variant of PushLoop: a push that finds eof set gives up the
\* bytes it could not write
PushLoopStopsAtEof(data, wt) ==
    LET r   == rb_write(buf, tail, size, SubSeq(data, wt + 1, Len(data)), 0, <<>>)
        wt2 == wt + r.written
    IN /\ buf' = r.buf /\ tail' = r.tail /\ size' = r.size
       /\ ringLog' = ringLog \o r.log
       /\ written_total' = wt2
       /\ IF wt2 < Len(data) /\ eof = 0
          THEN /\ ppc' = "wait"
               /\ total_pushed' = total_pushed
          ELSE /\ ppc' = "idle"
               /\ total_pushed' = total_pushed + Len(data)

\* lines 89-99: the loop of VFStreamPush from its top, up to the wait or
\* the return
PushLoop(data, wt) ==
    LET r   == rb_write(buf, tail, size, SubSeq(data, wt + 1, Len(data)), 0, <<>>)
        wt2 == wt + r.written
    IN /\ buf' = r.buf /\ tail' = r.tail /\ size' = r.size
       /\ ringLog' = ringLog \o r.log
       /\ written_total' = wt2
       /\ IF wt2 < Len(data)
          THEN /\ ppc' = "wait"
               /\ total_pushed' = total_pushed
          ELSE /\ ppc' = "idle"
               /\ total_pushed' = total_pushed + Len(data)

\* VFStreamPush(sr, data, len) with len >= 1 (len = 0 returns at line 85)
VFStreamPush(len) ==
    /\ ppc = "idle"
    /\ offered + len <= MaxTotal
    /\ LET data == [i \in 1..len |-> ByteAt(offered + i - 1)]
       IN /\ pdata' = data
          /\ PushLoop(data, 0)
          /\ pushInfo' = [N |-> len, F |-> Max(cap - size, 0), consumed |-> 0,
                           marked |-> FALSE]
    /\ offered' = offered + len
    /\ UNCHANGED <<cap, head, eof, pos, readOut, seeked, last, zeroReads>>

\* VFStreamPush returning from pthread_cond_wait (line 94) after a broadcast
PushResume ==
    /\ ppc = "woken"
    /\ PushLoop(pdata, written_total)
    /\ UNCHANGED <<cap, head, eof, pos, pdata, pushInfo, offered, readOut, seeked, last,
                   zeroReads>>

\* pthread_cond_wait may return without a broadcast (POSIX)
SpuriousWakeup ==
    /\ ppc = "wait"
    /\ ppc' = "woken"
    /\ UNCHANGED <<cap, buf, head, tail, size, eof, pos, total_pushed, pdata,
                   written_total, pushInfo, offered, ringLog, readOut, seeked,
                   last, zeroReads>>

\* VFStreamMarkEOF (lines 103-110)
\* (marked: the mark found the running push waiting on a full buffer)
VFStreamMarkEOF ==
    /\ eof' = 1
    /\ ppc' = Broadcast(ppc)
    /\ pushInfo' = [pushInfo EXCEPT !.marked = @ \/ (ppc = "wait" /\ size = cap)]
    /\ UNCHANGED <<cap, buf, head, tail, size, pos, total_pushed, pdata,
                   written_total, offered, ringLog, readOut, seeked,
                   last, zeroReads>>

(***************************************************************************)
(* Consumer: the libvorbisfile callbacks.                                  *)
(***************************************************************************)
\* the element sizes read_cb is called with (libvorbisfile passes 1)
ElemSizes == {1, 2}

\* a push is running: what the consumer takes out now counts for it (the
\* count stops at N, the most a push can wait for)
Consumed(n) ==
    IF ppc = "idle" THEN pushInfo
    ELSE [pushInfo EXCEPT !.consumed = Min(@ + n, pushInfo.N)]

\* lines 122-130: the loop of read_cb; sig tells whether line 129 ran
RECURSIVE ReadLoop(_, _, _, _, _, _)
ReadLoop(h, sz, p, want, got, sig) ==
    IF Len(got) < want /\ sz > 0
    THEN LET r == rb_read(buf, h, sz, want - Len(got), <<>>)
             chunk == Len(r.out)
         IN IF chunk = 0
            THEN [head |-> r.head, size |-> r.size, pos |-> p, got |-> got,
                  sig |-> sig]
            ELSE ReadLoop(r.head, r.size, p + chunk, want, got \o r.out, TRUE)
    ELSE [head |-> h, size |-> sz, pos |-> p, got |-> got, sig |-> sig]

\* read_cb(ptr, size, nmemb, datasrc), lines 115-140.  It holds the mutex
\* from line 120 to line 137 and never calls pthread_cond_wait.
read_cb(esize, nmemb) ==
    LET want_bytes == esize * nmemb
        r   == ReadLoop(head, size, pos, want_bytes, <<>>, FALSE)
        ret == IF esize # 0 THEN Len(r.got) \div esize ELSE 0
    IN /\ head' = r.head /\ size' = r.size /\ pos' = r.pos
       /\ ppc' = IF r.sig THEN Broadcast(ppc) ELSE ppc
       /\ readOut' = readOut \o r.got
       /\ pushInfo' = Consumed(Len(r.got))
       /\ last' = [op |-> "read", ret |-> ret, n |-> Len(r.got)]
       /\ zeroReads' = IF want_bytes > 0 /\ Len(r.got) = 0
                       THEN zeroReads \cup {[view |-> <<ret, r.size>>, eof |-> eof]}
                       ELSE zeroReads
       /\ UNCHANGED <<cap, buf, tail, eof, total_pushed, pdata, written_total,
                      offered, ringLog, seeked>>

\* a faulty variant of SeekWhenceOk: the switch without its default case
SeekWhenceAny(whence) == TRUE

\* lines 150-163: the whence values the switch knows
SeekWhenceOk(whence) == whence \in {SEEK_SET, SEEK_CUR, SEEK_END}

\* lines 150-163: new_pos (an unknown whence returns -1 at line 162)
SeekTarget(offset, whence) ==
    CASE whence = SEEK_SET -> offset
      [] whence = SEEK_CUR -> pos + offset
      [] whence = SEEK_END -> total_pushed + offset
      [] OTHER -> 0

\* SeekAccepts with line 178 off by one (pos_delta >= size refused)
SeekAcceptsOffByOne(new_pos) ==
    LET already_consumed == pos - (total_pushed - size)
        pos_delta == new_pos - pos
    IN /\ ~(new_pos < 0 \/ new_pos > total_pushed)
       /\ ~(pos_delta > 0 /\ pos_delta >= size)
       /\ ~(pos_delta < 0 /\ (-pos_delta) > already_consumed)

\* lines 166-187: whether seek_cb accepts new_pos
SeekAccepts(new_pos) ==
    LET already_consumed == pos - (total_pushed - size)
        pos_delta == new_pos - pos
    IN /\ ~(new_pos < 0 \/ new_pos > total_pushed)
       /\ ~(pos_delta > 0 /\ pos_delta > size)
       /\ ~(pos_delta < 0 /\ (-pos_delta) > already_consumed)

\* lines 190-203: head after a seek by pos_delta (size_t arithmetic)
SeekHead(pos_delta) ==
    IF pos_delta >= 0
    THEN SizeTMod(head + pos_delta, cap)
    ELSE LET rewind == -pos_delta
         IN IF head < 0 \/ head >= rewind
            THEN head - rewind
            ELSE cap - (rewind - head)

\* lines 190-203: size after a seek by pos_delta
SeekSize(pos_delta) == size - pos_delta

\* the value that seek_cb(datasrc, offset, whence) returns in this state
SeekReturn(offset, whence) ==
    IF SeekWhenceOk(whence) /\ SeekAccepts(SeekTarget(offset, whence))
    THEN 0 ELSE -1

\* lines 161-162, 167-168, 179-180, 185-186: seek_cb unlocks and returns -1
SeekRefused ==
    /\ last' = [op |-> "seek", ret |-> -1, n |-> 0]
    /\ UNCHANGED <<cap, buf, head, tail, size, eof, pos, total_pushed,
                   ppc, pdata, written_total, pushInfo, offered,
                   ringLog, readOut, seeked, zeroReads>>

\* seek_cb(datasrc, offset, whence), lines 143-208
seek_cb(offset, whence) ==
    LET new_pos == SeekTarget(offset, whence)
        ok == SeekReturn(offset, whence) = 0
    IN IF ok
       THEN /\ head' = SeekHead(new_pos - pos)
            /\ size' = SeekSize(new_pos - pos)
            /\ pos' = new_pos
            /\ readOut' = <<>>
            /\ seeked' = TRUE
            /\ pushInfo' = Consumed(Max(new_pos - pos, 0))
            /\ last' = [op |-> "seek", ret |-> 0, n |-> 0]
            /\ UNCHANGED <<cap, buf, tail, eof, total_pushed, ppc, pdata,
                           written_total, offered, ringLog, zeroReads>>
       ELSE SeekRefused

--------------------------------------------------------------------------
(***************************************************************************)
(* Part II: the decode session of OggVorbisBridge.c.                       *)
(*                                                                         *)
(* The input is a sequence of tokens.  A page is a page-start token, which *)
(* carries the page's serial number and its number of packets, followed by *)
(* that many packet tokens; a call may hand over any piece of the stream,  *)
(* so a page may arrive over several calls.  What libogg and libvorbis     *)
(* answer for a packet is a property of the packet:                        *)
(*   "H"    a header packet that vorbis_synthesis_headerin accepts         *)
(*   "Hbad" the same, but it leaves a setup that vorbis_synthesis_init     *)
(*          rejects                                                        *)
(*   "X"    a packet that vorbis_synthesis_headerin and vorbis_synthesis   *)
(*          both reject                                                    *)
(*   "I"    an audio packet that vorbis_synthesis accepts and              *)
(*          vorbis_synthesis_blockin rejects                               *)
(*   "A"    an audio packet with granulepos a that decodes to b samples.   *)
(* Memory allocation is taken to succeed.  The comment strings that the    *)
(* stream's comment header carries are feed.comments; each is a C string,  *)
(* written as the sequence of its characters before the terminating NUL.   *)
(***************************************************************************)
PageStart(serial, np) == [t |-> "S", a |-> serial, b |-> np]

Packet(kind) == [t |-> kind, a |-> 0, b |-> 0]

Audio(gp, n) == [t |-> "A", a |-> gp, b |-> n]

\* serial numbers of pages: the stream's own, and a foreign one
Serials == {1, 2}

\* granule positions of audio packets (-1: the packet carries none)
GranuleValues == {-1} \cup (1..MaxGranule)

\* number of samples that vorbis_synthesis_pcmout reports for a packet
SampleCounts == 0..MaxSamples

Starts == {PageStart(s, np) : s \in Serials, np \in 1..MaxPagePackets}

Packets ==
    {Packet("H"), Packet("Hbad"), Packet("X"), Packet("I")}
        \cup {Audio(gp, n) : gp \in GranuleValues, n \in SampleCounts}

\* the error codes of OggVorbisBridge.h
OGGVORBIS_SUCCESS == 0
OGGVORBIS_ERROR_OUT_OF_MEMORY == -1
OGGVORBIS_ERROR_INVALID_SETUP == -2
OGGVORBIS_ERROR_INVALID_STREAM == -3
OGGVORBIS_ERROR_INVALID_HEADER == -4
OGGVORBIS_ERROR_INVALID_PACKET == -5
OGGVORBIS_ERROR_INTERNAL == -6

VARIABLES
    ctx,    \* struct OggVorbisDecoderContext
    feed,   \* the input: pend = packets still due in the page being handed
            \*   over, fed = tokens handed over, hdrs / good / bad = header
            \*   packets, decodable and undecodable audio packets handed over,
            \*   sent = the tokens handed over so far, recorded when keep is set
    obs     \* observations the claims are about

sessVars == <<ctx, feed, obs>>

\* ogg_sync_init: an empty buffer, in sync
ogg_sync_init == [data |-> <<>>, unsynced |-> FALSE]

\* the state that OggVorbisDecoderCreate and OggVorbisDecoderReset establish
FreshContext ==
    [oy |-> ogg_sync_init, os |-> <<>>, serialno |-> 0, vi |-> 0,
     initialized |-> 0, headersParsed |-> 0, streamInitialized |-> 0,
     granulePosition |-> 0, totalSamples |-> 0, currentSample |-> 0,
     pcmOutput |-> 0, pcmSamples |-> 0, pcmChannels |-> 0,
     vc |-> <<>>, commentKeys |-> <<>>, commentValues |-> <<>>,
     commentCount |-> 0]

\* the input before any of it is handed over; raw is the list of comment
\* strings in its comment header
NewFeed(raw) ==
    [pend |-> 0, fed |-> 0, hdrs |-> 0, good |-> 0, bad |-> 0, comments |-> raw,
     sent |-> <<>>, keep |-> FALSE]

NoObs ==
    [headerinOk |-> 0, synthUnready |-> FALSE, produced |-> 0, extracted |-> 0,
     collected |-> TRUE, submitError |-> FALSE,
     skipNow |-> FALSE, resumed |-> FALSE,
     synthInits |-> 0, tables |-> 0, didReset |-> FALSE,
     ret |-> OGGVORBIS_SUCCESS, n |-> 0]

OggVorbisDecoderCreate ==
    /\ ctx = FreshContext
    /\ feed = NewFeed(<<>>)
    /\ obs = NoObs

\* vorbis_synthesis_headerin accepts the packet
HeaderinOk(pkt) == pkt.t \in {"H", "Hbad"}

\* vorbis_synthesis_init accepts the setup that the headers left in vi
SynthesisInitOk(c) == c.vi = 0

\* vorbis_synthesis accepts the packet; the block state of a session that is
\* not initialized has no decoder behind it, and every packet is rejected
SynthesisOk(c, pkt) == c.initialized = 1 /\ pkt.t \in {"A", "I"}

\* vorbis_synthesis_blockin accepts the block
BlockinOk(pkt) == pkt.t # "I"

\* vorbis_synthesis_pcmout: the block just submitted is all that is pending,
\* since every sample reported is consumed by vorbis_synthesis_read at once
vorbis_synthesis_pcmout(pkt) == pkt.b

\* a faulty variant of HeaderRejected: the header is counted before the
\* result of vorbis_synthesis_headerin is looked at
HeaderCountedBeforeCheck(c, o, pkt) ==
    [c |-> [c EXCEPT !.headersParsed = Min(@ + 1, 3)], o |-> o,
     err |-> OGGVORBIS_ERROR_INVALID_HEADER]

\* a header packet that vorbis_synthesis_headerin rejected
HeaderRejected(c, o, pkt) ==
    [c |-> c, o |-> o, err |-> OGGVORBIS_ERROR_INVALID_HEADER]

\* a faulty variant of strchr: the last occurrence, as strrchr finds it
RECURSIVE strrchr(_, _)
strrchr(s, ch) ==
    IF s = <<>> THEN 0
    ELSE IF s[Len(s)] = ch THEN Len(s)
    ELSE strrchr(SubSeq(s, 1, Len(s) - 1), ch)

\* strchr(s, ch): the place of the first ch in s, 0 for NULL
RECURSIVE strchr(_, _)
strchr(s, ch) ==
    IF s = <<>> THEN 0
    ELSE IF s[1] = ch THEN 1
    ELSE LET r == strchr(Tail(s), ch) IN IF r = 0 THEN 0 ELSE r + 1

\* lines 168-198: the key and the value copied out of one comment string
SplitComment(comment) ==
    LET equals == strchr(comment, "=")
    IN IF equals # 0
       THEN [key |-> SubSeq(comment, 1, equals - 1),
             value |-> SubSeq(comment, equals + 1, Len(comment))]
       ELSE [key |-> <<>>, value |-> comment]

\* lines 159-200: the comment table built from vc
ProcessComments(c) ==
    [c EXCEPT !.commentCount = Len(c.vc),
              !.commentKeys = [i \in 1..Len(c.vc) |-> SplitComment(c.vc[i]).key],
              !.commentValues = [i \in 1..Len(c.vc) |-> SplitComment(c.vc[i]).value]]

\* the header branch of the packet loop; the second header packet is the
\* comment header, from which vorbis_synthesis_headerin fills vc
HeaderPacket(c, o, pkt) ==
    IF ~HeaderinOk(pkt)
    THEN HeaderRejected(c, o, pkt)
    ELSE LET c1 == [c EXCEPT !.headersParsed = @ + 1,
                             !.vi = IF pkt.t = "Hbad" THEN 1 ELSE @,
                             !.vc = IF c.headersParsed = 1 THEN feed.comments ELSE @]
             o1 == [o EXCEPT !.headerinOk = @ + 1]
             \* synthInits, tables: calls of vorbis_synthesis_init and comment
             \* tables built since the session was created or reset
             o2 == [o1 EXCEPT !.synthInits = Min(@ + 1, 2)]
         IN IF c1.headersParsed = 3
            THEN IF ~SynthesisInitOk(c1)
                 THEN [c |-> c1, o |-> o2, err |-> OGGVORBIS_ERROR_INVALID_SETUP]
                 ELSE [c |-> ProcessComments([c1 EXCEPT !.initialized = 1]),
                       o |-> [o2 EXCEPT !.tables = Min(@ + 1, 2)],
                       err |-> OGGVORBIS_SUCCESS]
            ELSE [c |-> c1, o |-> o1, err |-> OGGVORBIS_SUCCESS]

\* a faulty variant of PacketSkipped: the decode failure ends the call
PacketSkippedAborts(c, o) ==
    [c |-> c, o |-> o, err |-> OGGVORBIS_ERROR_INVALID_PACKET]

\* lines 205-208: a packet that vorbis_synthesis rejected is skipped
\* (skipNow: a packet of this page was skipped in a Ready session)
PacketSkipped(c, o) ==
    [c |-> c, o |-> [o EXCEPT !.skipNow = @ \/ c.initialized = 1],
     err |-> OGGVORBIS_SUCCESS]

\* a faulty variant of GranuleUpdate: the estimate follows the last packet
GranuleUpdateOverwrites(c, pkt) ==
    IF pkt.a >= 0
    THEN [c EXCEPT !.granulePosition = pkt.a, !.totalSamples = pkt.a]
    ELSE c

\* lines 216-222: the granule position and the total-sample estimate
GranuleUpdate(c, pkt) ==
    IF pkt.a >= 0
    THEN [c EXCEPT !.granulePosition = pkt.a,
                   !.totalSamples = IF pkt.a > @ THEN pkt.a ELSE @]
    ELSE c

\* the audio branch of the packet loop
AudioPacket(c, o, pkt) ==
    LET o1 == [o EXCEPT !.synthUnready = @ \/ c.initialized = 0]
    IN IF ~SynthesisOk(c, pkt)
       THEN PacketSkipped(c, o1)
       ELSE IF ~BlockinOk(pkt)
       THEN [c |-> c, o |-> o1, err |-> OGGVORBIS_ERROR_INTERNAL]
       ELSE LET c1 == GranuleUpdate(c, pkt)
                samples == vorbis_synthesis_pcmout(pkt)
            IN IF samples > 0
               THEN [c |-> [c1 EXCEPT !.pcmOutput = 1,
                                      !.pcmSamples = samples,
                                      !.pcmChannels = Channels,
                                      !.currentSample = @ + samples],
                     o |-> [o1 EXCEPT !.produced = @ + 1,
                                      !.resumed = @ \/ o1.skipNow],
                     err |-> OGGVORBIS_SUCCESS]
               ELSE [c |-> c1, o |-> o1, err |-> OGGVORBIS_SUCCESS]

\* the packet loop: ogg_stream_packetout hands out the packets queued in os,
\* and a return from inside the loop leaves the rest queued
RECURSIVE PacketLoop(_, _)
PacketLoop(c, o) ==
    IF c.os = <<>>
    THEN [c |-> c, o |-> o, err |-> OGGVORBIS_SUCCESS]
    ELSE LET pkt == Head(c.os)
             c0 == [c EXCEPT !.os = Tail(@)]
             r == IF c0.headersParsed < 3 THEN HeaderPacket(c0, o, pkt)
                                          ELSE AudioPacket(c0, o, pkt)
         IN IF r.err # OGGVORBIS_SUCCESS THEN r ELSE PacketLoop(r.c, r.o)

\* a faulty variant of processOggPage: every page sets the stream up anew
processOggPageRelatches(c, o, page) ==
    PacketLoop([c EXCEPT !.serialno = page.serial, !.os = page.packets,
                         !.streamInitialized = 1],
               [o EXCEPT !.skipNow = FALSE])

\* ogg_stream_pagein accepts a page iff it carries the stream's serial number
processOggPage(c, o, page) ==
    LET c1 == IF c.streamInitialized = 1 THEN c
              ELSE [c EXCEPT !.serialno = page.serial, !.os = <<>>,
                             !.streamInitialized = 1]
    IN IF page.serial # c1.serialno
       THEN [c |-> c1, o |-> o, err |-> OGGVORBIS_ERROR_INVALID_STREAM]
       ELSE PacketLoop([c1 EXCEPT !.os = @ \o page.packets],
                       [o EXCEPT !.skipNow = FALSE])

\* ogg_sync_pageout: 1 and a page when a whole page is buffered, 0 when more
\* data is needed, -1 once when it had to skip data to find a page start
RECURSIVE DropGarbage(_)
DropGarbage(d) ==
    IF d = <<>> \/ d[1].t = "S" THEN d ELSE DropGarbage(Tail(d))

RECURSIVE ogg_sync_pageout(_)
ogg_sync_pageout(oy) ==
    LET d == oy.data
    IN IF d = <<>>
       THEN [res |-> 0, oy |-> oy]
       ELSE IF d[1].t = "S"
       THEN IF Len(d) >= 1 + d[1].b
            THEN [res |-> 1,
                  oy |-> [data |-> SubSeq(d, 2 + d[1].b, Len(d)), unsynced |-> FALSE],
                  page |-> [serial |-> d[1].a, packets |-> SubSeq(d, 2, 1 + d[1].b)]]
            ELSE [res |-> 0, oy |-> oy]
       ELSE LET skipped == [data |-> DropGarbage(d), unsynced |-> TRUE]
            IN IF oy.unsynced THEN ogg_sync_pageout(skipped)
               ELSE [res |-> -1, oy |-> skipped]

\* a faulty variant of SyncWrite: the chunk replaces what was buffered
SyncWriteOverwrites(c, chunk) == [c EXCEPT !.oy.data = chunk]

\* ogg_sync_buffer, memcpy, ogg_sync_wrote
SyncWrite(c, chunk) == [c EXCEPT !.oy.data = @ \o chunk]

\* the page loop of OggVorbisDecoderProcessData
RECURSIVE ProcessPages(_, _)
ProcessPages(c, o) ==
    LET r == ogg_sync_pageout(c.oy)
        c1 == [c EXCEPT !.oy = r.oy]
    IN IF r.res = 1
       THEN LET p == processOggPage(c1, o, r.page)
            IN IF p.err # OGGVORBIS_SUCCESS THEN p ELSE ProcessPages(p.c, p.o)
       ELSE [c |-> c1, o |-> o, err |-> OGGVORBIS_SUCCESS]

\* the page loop of OggVorbisDecoderInit
RECURSIVE InitPages(_, _)
InitPages(c, o) ==
    LET r == ogg_sync_pageout(c.oy)
        c1 == [c EXCEPT !.oy = r.oy]
    IN IF r.res = 1
       THEN LET p == processOggPage(c1, o, r.page)
            IN IF p.err # OGGVORBIS_SUCCESS THEN p
               ELSE IF p.c.headersParsed = 3 THEN p
               ELSE InitPages(p.c, p.o)
       ELSE [c |-> c1, o |-> o, err |-> OGGVORBIS_ERROR_INVALID_HEADER]

\* the input after one more token; the packets of a valid stream are counted
FeedToken(f, tok, valid) ==
    [pend |-> IF tok.t = "S" THEN tok.b ELSE f.pend - 1,
     fed |-> f.fed + 1,
     hdrs |-> IF valid /\ HeaderinOk(tok) THEN f.hdrs + 1 ELSE f.hdrs,
     good |-> IF valid /\ tok.t = "A" /\ tok.b > 0 THEN f.good + 1 ELSE f.good,
     bad |-> IF valid /\ tok.t = "X" THEN f.bad + 1 ELSE f.bad,
     comments |-> f.comments,
     sent |-> IF f.keep THEN Append(f.sent, tok) ELSE f.sent,
     keep |-> f.keep]

RECURSIVE FeedChunk(_, _, _)
FeedChunk(f, chunk, valid) ==
    IF chunk = <<>> THEN f
    ELSE FeedChunk(FeedToken(f, Head(chunk), valid), Tail(chunk), valid)

\* the packets of a caller that is setting a session up: the three kinds of
\* header packet and one audio packet
SetupPackets == {Packet("H"), Packet("Hbad"), Packet("X"), Audio(1, 1)}

\* the tokens that may come next, by the kind of input:
\*   "any"    any well-framed token
\*   "setup"  any well-framed token whose packets are SetupPackets
\*   "valid"  a valid stream: three header packets and then audio packets
\*            that decode to samples, with at most one packet that fails to
\*            decode, all in pages of the stream's own serial number
NextTokens(f, mode) ==
    IF f.pend = 0
    THEN IF mode = "valid" THEN {s \in Starts : s.a = 1} ELSE Starts
    ELSE IF mode = "any" THEN Packets
    ELSE IF mode = "setup" THEN SetupPackets
    ELSE IF f.hdrs < 3 THEN {Packet("H")}
    ELSE {p \in Packets : (p.t = "A" /\ p.b > 0) \/ (p.t = "X" /\ f.bad = 0)}

\* the pieces of k tokens that a call may hand over next
RECURSIVE Chunks(_, _, _)
Chunks(f, k, mode) ==
    IF k = 0 THEN {<<>>}
    ELSE UNION {{<<tok>> \o r : r \in Chunks(FeedToken(f, tok, mode = "valid"), k - 1, mode)} :
                tok \in NextTokens(f, mode)}

ChunkSizes == 1..MaxChunk

\* what a call that hands over data leaves for the observer
Submitted(o, err) ==
    [o EXCEPT !.collected = FALSE, !.ret = err, !.n = 0, !.skipNow = FALSE,
              !.submitError = @ \/ err # OGGVORBIS_SUCCESS]

\* a faulty variant of ResetContext: the stream state is cleared only for a
\* session that is Ready
ResetContextStreamIfReady(c) ==
    [c EXCEPT !.initialized = 0, !.streamInitialized = 0,
              !.os = IF c.initialized # 0 THEN <<>> ELSE @,
              !.serialno = IF c.initialized # 0 THEN 0 ELSE @,
              !.oy = ogg_sync_init, !.vi = 0,
              !.headersParsed = 0, !.granulePosition = 0, !.totalSamples = 0,
              !.currentSample = 0, !.pcmOutput = 0, !.pcmSamples = 0,
              !.pcmChannels = 0, !.vc = <<>>, !.commentKeys = <<>>,
              !.commentValues = <<>>, !.commentCount = 0]

\* the body of OggVorbisDecoderReset; ogg_stream_clear (lines 430-433, only
\* for a session whose stream is initialised) zeroes the stream state and
\* with it the serial number
ResetContext(c) ==
    [c EXCEPT !.initialized = 0, !.streamInitialized = 0,
              !.os = IF c.streamInitialized # 0 THEN <<>> ELSE @,
              !.serialno = IF c.streamInitialized # 0 THEN 0 ELSE @,
              !.oy = ogg_sync_init, !.vi = 0,
              !.headersParsed = 0, !.granulePosition = 0, !.totalSamples = 0,
              !.currentSample = 0, !.pcmOutput = 0, !.pcmSamples = 0,
              !.pcmChannels = 0, !.vc = <<>>, !.commentKeys = <<>>,
              !.commentValues = <<>>, !.commentCount = 0]

OggVorbisDecoderProcessData(chunk, valid) ==
    LET c0 == [ctx EXCEPT !.pcmOutput = 0, !.pcmSamples = 0, !.pcmChannels = 0]
        r == ProcessPages(SyncWrite(c0, chunk), [obs EXCEPT !.didReset = FALSE])
    IN /\ ctx' = r.c
       /\ obs' = Submitted(r.o, r.err)
       /\ feed' = FeedChunk(feed, chunk, valid)
       /\ UNCHANGED ringVars

\* a faulty variant of InitResets: every call starts the session afresh
InitResetsAlways(c) == TRUE

\* lines 254-256: OggVorbisDecoderInit resets the session first
InitResets(c) == c.headersParsed = 0

OggVorbisDecoderInit(chunk, valid) ==
    LET c0 == IF InitResets(ctx) THEN ResetContext(ctx) ELSE ctx
        \* didReset: the call went through OggVorbisDecoderReset
        o0 == IF InitResets(ctx)
              THEN [obs EXCEPT !.headerinOk = 0, !.didReset = TRUE]
              ELSE [obs EXCEPT !.didReset = FALSE]
        r == InitPages(SyncWrite(c0, chunk), o0)
    IN /\ ctx' = r.c
       /\ obs' = Submitted(r.o, r.err)
       /\ feed' = FeedChunk(feed, chunk, valid)
       /\ UNCHANGED ringVars

\* lines 363-371 and 401-404: the return value of OggVorbisDecoderGetPCMData
\* and the frame count it stores (0 when it stores none)
GetPCMDataResult(c) ==
    [err |-> IF c.initialized = 0 THEN OGGVORBIS_ERROR_INVALID_SETUP
             ELSE OGGVORBIS_SUCCESS,
     n |-> IF c.initialized = 0 \/ c.pcmOutput = 0 \/ c.pcmSamples <= 0
           THEN 0 ELSE c.pcmSamples]

OggVorbisDecoderGetPCMData ==
    LET err == GetPCMDataResult(ctx).err
        samplesDecoded == GetPCMDataResult(ctx).n
    IN /\ obs' = [obs EXCEPT !.collected = TRUE, !.ret = err, !.didReset = FALSE,
                             !.n = samplesDecoded,
                             !.extracted = IF samplesDecoded > 0 /\ ~obs.collected
                                           THEN @ + 1 ELSE @]
       /\ UNCHANGED <<ctx, feed, ringVars>>

\* OggVorbisDecoderReset; o and f are what the caller has observed and the
\* input it goes on with
ResetCall(o, f) ==
    /\ ctx' = ResetContext(ctx)
    /\ obs' = [o EXCEPT !.headerinOk = 0, !.synthInits = 0, !.tables = 0,
                        !.didReset = TRUE,
                        !.ret = OGGVORBIS_SUCCESS, !.n = 0]
    /\ feed' = f
    /\ UNCHANGED ringVars

OggVorbisDecoderReset == ResetCall(obs, feed)

(***************************************************************************)
(* Specifications.                                                         *)
(***************************************************************************)
vars == <<ringVars, sessVars>>

Init == VFStreamCreate /\ OggVorbisDecoderCreate

Producer ==
    /\ UNCHANGED <<sessVars, lockVars>>
    /\ \/ \E len \in 1..MaxPush : VFStreamPush(len)
       \/ PushResume
       \/ SpuriousWakeup
       \/ VFStreamMarkEOF

Reader ==
    /\ UNCHANGED <<sessVars, lockVars>>
    /\ \E esize \in ElemSizes, nmemb \in 0..MaxNmemb : read_cb(esize, nmemb)

Seeker ==
    /\ UNCHANGED <<sessVars, lockVars>>
    /\ \E offset \in (-MaxOff)..MaxOff, whence \in {SEEK_SET, SEEK_CUR, SEEK_END, SEEK_BAD} :
           seek_cb(offset, whence)

\* one producer and one consumer that reads and seeks
NextRing == Producer \/ Reader \/ Seeker

SpecRing == Init /\ [][NextRing]_vars

\* one producer and one consumer that only reads
NextRingNoSeek == Producer \/ Reader

SpecRingNoSeek == Init /\ [][NextRingNoSeek]_vars

\* the producer going on after pthread_cond_wait has returned
ResumeStep == PushResume /\ UNCHANGED <<sessVars, lockVars>>

\* a read that takes at least one byte
FreeingRead == Reader /\ size' < size

\* the two threads under weak fairness: a producer woken from
\* pthread_cond_wait goes on, and the consumer keeps reading while bytes are
\* resident; nothing obliges pthread_cond_wait to return without a broadcast
SpecRingFair ==
    /\ Init /\ [][NextRing]_vars
    /\ WF_vars(ResumeStep)
    /\ WF_vars(FreeingRead)

(***************************************************************************)
(* The two threads with the mutex s->m made explicit: an operation is       *)
(* entered, takes the mutex if its code does, runs its body, and gives the  *)
(* mutex back; pthread_cond_wait gives it back while it waits.              *)
(***************************************************************************)
\* the operations a thread may call
OpsOf(t) ==
    IF t = "producer"
    THEN {"VFStreamPush", "VFStreamMarkEOF", "VFStreamAvailableBytes"}
    ELSE {"read_cb", "seek_cb", "tell_cb", "VFStreamAvailableBytes"}

\* the fields of struct VFRemoteStream that the body of op reads or writes
Fields(op) ==
    CASE op = "VFStreamPush" -> {"cap", "size", "tail", "total_pushed"}
      [] op = "VFStreamMarkEOF" -> {"eof"}
      [] op = "VFStreamAvailableBytes" -> {"size"}
      [] op = "read_cb" -> {"cap", "size", "head", "pos", "eof"}
      [] op = "seek_cb" -> {"cap", "size", "head", "pos", "total_pushed"}
      [] op = "tell_cb" -> {"pos"}

\* the fields that the body of op writes
Writes(op) ==
    CASE op = "VFStreamPush" -> {"size", "tail", "total_pushed"}
      [] op = "VFStreamMarkEOF" -> {"eof"}
      [] op = "read_cb" -> {"size", "head", "pos"}
      [] op = "seek_cb" -> {"size", "head", "pos"}
      [] OTHER -> {}

\* a faulty variant of Locks: the operations that only read take no mutex
LocksOnlyWriters(op) == Writes(op) # {}

\* whether the code of op calls pthread_mutex_lock(&s->m) before its body
Locks(op) == op # "tell_cb"

\* a thread calls an operation
Enter(t) ==
    /\ thr[t].pc = "idle"
    /\ \E op \in OpsOf(t) :
           thr' = [thr EXCEPT ![t] = [op |-> op,
                                      pc |-> IF Locks(op) THEN "lock" ELSE "body"]]
    /\ UNCHANGED <<cap, buf, head, tail, size, eof, pos, total_pushed, ppc, pdata,
                   written_total, pushInfo, offered, ringLog, readOut, seeked,
                   last, zeroReads, mutex, bare, sessVars>>

\* pthread_mutex_lock(&s->m)
Acquire(t) ==
    /\ thr[t].pc = "lock" /\ mutex = "none"
    /\ mutex' = t
    /\ thr' = [thr EXCEPT ![t].pc = "body"]
    /\ UNCHANGED <<cap, buf, head, tail, size, eof, pos, total_pushed, ppc, pdata,
                   written_total, pushInfo, offered, ringLog, readOut, seeked,
                   last, zeroReads, bare, sessVars>>

\* the accesses of the body of op by thread t, recorded if s->m is not held
Touched(t, op) ==
    IF mutex = t THEN bare
    ELSE bare \cup {[op |-> op, field |-> f] : f \in Fields(op)}

\* an operation that only reports a value
Report(op, value) ==
    /\ last' = [op |-> op, ret |-> value, n |-> 0]
    /\ UNCHANGED <<cap, buf, head, tail, size, eof, pos, total_pushed, ppc, pdata,
                   written_total, pushInfo, offered, ringLog, readOut, seeked,
                   zeroReads>>

\* the body of the operation thread t is in; a push that has to wait gives
\* the mutex back in pthread_cond_wait
Body(t) ==
    LET op == thr[t].op
    IN /\ thr[t].pc = "body"
       /\ bare' = Touched(t, op)
       /\ CASE op = "VFStreamPush" -> \E len \in 1..MaxPush : VFStreamPush(len)
            [] op = "VFStreamMarkEOF" -> VFStreamMarkEOF
            [] op = "VFStreamAvailableBytes" -> Report(op, VFStreamAvailableBytes)
            [] op = "read_cb" -> read_cb(1, 1)
            [] op = "seek_cb" -> \E offset \in 0..MaxOff : seek_cb(offset, SEEK_SET)
            [] op = "tell_cb" -> Report(op, tell_cb)
       /\ IF op = "VFStreamPush" /\ ppc' = "wait"
          THEN /\ thr' = [thr EXCEPT ![t].pc = "wait"]
               /\ mutex' = IF mutex = t THEN "none" ELSE mutex
          ELSE /\ thr' = [thr EXCEPT ![t] = IF mutex = t THEN [@ EXCEPT !.pc = "unlock"]
                                                          ELSE NoOp]
               /\ mutex' = mutex
       /\ UNCHANGED sessVars

\* pthread_cond_wait returns: the mutex is taken again and the loop of
\* VFStreamPush goes on
Reacquire(t) ==
    /\ thr[t].pc = "wait" /\ ppc = "woken" /\ mutex = "none"
    /\ PushResume
    /\ IF ppc' = "wait"
       THEN UNCHANGED <<thr, mutex>>
       ELSE thr' = [thr EXCEPT ![t].pc = "unlock"] /\ mutex' = t
    /\ UNCHANGED <<bare, sessVars>>

\* pthread_mutex_unlock(&s->m)
Release(t) ==
    /\ thr[t].pc = "unlock" /\ mutex = t
    /\ mutex' = "none"
    /\ thr' = [thr EXCEPT ![t] = NoOp]
    /\ UNCHANGED <<cap, buf, head, tail, size, eof, pos, total_pushed, ppc, pdata,
                   written_total, pushInfo, offered, ringLog, readOut, seeked,
                   last, zeroReads, bare, sessVars>>

\* pthread_cond_wait returning without a broadcast
Spurious == SpuriousWakeup /\ UNCHANGED <<lockVars, sessVars>>

NextLock ==
    \/ \E t \in Threads : Enter(t)
    \/ \E t \in Threads : Acquire(t)
    \/ \E t \in Threads : Body(t)
    \/ \E t \in Threads : Reacquire(t)
    \/ \E t \in Threads : Release(t)
    \/ Spurious

InitLock == Init /\ cap = 1

SpecLock == InitLock /\ [][NextLock]_vars

\* a decode session alone
InitSession == Init /\ cap = 1

\* a caller that hands over any well-framed data through either entry point,
\* collects PCM and resets whenever it likes
Submit ==
    \E k \in ChunkSizes :
        /\ feed.fed + k <= MaxFed
        /\ \E chunk \in Chunks(feed, k, "any") : OggVorbisDecoderProcessData(chunk, FALSE)

InitCall ==
    \E k \in ChunkSizes :
        /\ feed.fed + k <= MaxFed
        /\ \E chunk \in Chunks(feed, k, "any") : OggVorbisDecoderInit(chunk, FALSE)

NextSession ==
    Submit \/ InitCall \/ OggVorbisDecoderGetPCMData \/ OggVorbisDecoderReset

SpecSession == InitSession /\ [][NextSession]_vars

\* the same caller, setting a session up
SubmitSetup ==
    \E k \in ChunkSizes :
        /\ feed.fed + k <= MaxFed
        /\ \E chunk \in Chunks(feed, k, "setup") : OggVorbisDecoderProcessData(chunk, FALSE)

InitSetup ==
    \E k \in ChunkSizes :
        /\ feed.fed + k <= MaxFed
        /\ \E chunk \in Chunks(feed, k, "setup") : OggVorbisDecoderInit(chunk, FALSE)

NextSetup ==
    SubmitSetup \/ InitSetup \/ OggVorbisDecoderGetPCMData \/ OggVorbisDecoderReset

SpecSetup == InitSession /\ [][NextSetup]_vars

\* a caller that submits a valid stream in pieces and calls the PCM collector
\* after every submit
SubmitValid ==
    /\ obs.collected
    /\ \E k \in ChunkSizes :
           /\ feed.fed + k <= MaxFedValid
           /\ \E chunk \in Chunks(feed, k, "valid") : OggVorbisDecoderProcessData(chunk, TRUE)

Collect == ~obs.collected /\ OggVorbisDecoderGetPCMData

NextPlayback == SubmitValid \/ Collect

SpecPlayback == InitSession /\ [][NextPlayback]_vars

\* the characters of comment strings, the strings and the comment lists
Chars == {"a", "="}

CommentStrings == UNION {[1..k -> Chars] : k \in 0..MaxCommentLen}

RawCommentLists == UNION {[1..k -> CommentStrings] : k \in 0..MaxComments}

\* a session created for a stream with any comment list
InitComments ==
    /\ VFStreamCreate /\ cap = 1
    /\ ctx = FreshContext
    /\ obs = NoObs
    /\ \E raw \in RawCommentLists : feed = NewFeed(raw)

\* the pages of the three header packets of a valid stream, framed in any
\* way (three header packets and one to three page starts)
HeaderStreams(f) ==
    UNION {{chunk \in Chunks(f, k, "valid") :
                LET g == FeedChunk(f, chunk, TRUE)
                IN g.hdrs = 3 /\ g.pend = 0 /\ g.good = 0 /\ g.bad = 0} :
           k \in 4..6}

\* a caller that submits the pages of the three header packets in one call
SubmitHeaders ==
    /\ feed.fed = 0
    /\ \E chunk \in HeaderStreams(feed) : OggVorbisDecoderProcessData(chunk, TRUE)

NextComments == SubmitHeaders

SpecComments == InitComments /\ [][NextComments]_vars

\* a caller that submits a valid stream in pieces and nothing else; the
\* stream handed over so far is recorded
InitSplit ==
    /\ VFStreamCreate /\ cap = 1
    /\ ctx = FreshContext
    /\ obs = NoObs
    /\ feed = [NewFeed(<<>>) EXCEPT !.keep = TRUE]

SubmitSplit ==
    \E k \in ChunkSizes :
        /\ feed.fed + k <= MaxFedValid
        /\ \E chunk \in Chunks(feed, k, "valid") : OggVorbisDecoderProcessData(chunk, TRUE)

NextSplit == SubmitSplit

SpecSplit == InitSplit /\ [][NextSplit]_vars

\* a caller that hands a valid stream to OggVorbisDecoderInit in pieces
InitChunk ==
    \E k \in ChunkSizes :
        /\ feed.fed + k <= MaxFedValid
        /\ \E chunk \in Chunks(feed, k, "valid") : OggVorbisDecoderInit(chunk, TRUE)

NextInitSplit == InitChunk

SpecInitSplit == InitSplit /\ [][NextInitSplit]_vars

\* a caller that sets a session up with any data, resets it whenever it
\* likes and then submits a new, valid stream in pieces; from the reset on
\* the new stream is recorded, and the caller observes anew, remembering
\* only whether a call had failed
FirstSubmit ==
    /\ ~feed.keep
    /\ \E k \in ChunkSizes :
           /\ feed.fed + k <= MaxFirst
           /\ \E chunk \in Chunks(feed, k, "setup") : OggVorbisDecoderProcessData(chunk, FALSE)

FirstInit ==
    /\ ~feed.keep
    /\ \E k \in ChunkSizes :
           /\ feed.fed + k <= MaxFirst
           /\ \E chunk \in Chunks(feed, k, "setup") : OggVorbisDecoderInit(chunk, FALSE)

Reuse ==
    ResetCall([NoObs EXCEPT !.submitError = obs.submitError],
              [NewFeed(<<>>) EXCEPT !.keep = TRUE])

SubmitNew == feed.keep /\ SubmitSplit

NextReuse == FirstSubmit \/ FirstInit \/ Reuse \/ SubmitNew

SpecReuse == InitSession /\ [][NextReuse]_vars

--------------------------------------------------------------------------
(***************************************************************************)
(* Claims about the ring buffer.                                           *)
(***************************************************************************)
\* the first n bytes of the stream handed to the producer
Stream(n) == [i \in 1..n |-> ByteAt(i - 1)]

\* a step in which a VFStreamPush call returns
PushReturns == ppc' = "idle" /\ (ppc # "idle" \/ offered' # offered)

\* what every step of the consumer callback op shows (read_cb and seek_cb
\* leave the producer's side alone and record themselves in last)
ConsumerStep(op) ==
    last'.op = op /\ UNCHANGED <<tail, offered, eof, written_total, sessVars>>

\* the valid whence values and the offsets of the modelled seeks
Whences == {SEEK_SET, SEEK_CUR, SEEK_END}

Offsets == (-MaxOff)..MaxOff

\* C1: with one producer and one consumer that only reads, the bytes
\* returned by the reads, concatenated, are a prefix of the bytes pushed:
\* nothing is lost, duplicated or reordered.
C1_ReadsArePrefixOfPushes ==
    /\ Len(readOut) <= offered
    /\ readOut = SubSeq(Stream(offered), 1, Len(readOut))

\* C1 witness: a push of 3 bytes into a ring of capacity 1, written in
\* three waited pieces, has been read back completely
C1_Witness ==
    /\ cap = 1 /\ pushInfo.N = 3 /\ ppc = "idle" /\ ~seeked
    /\ readOut = <<ByteAt(0), ByteAt(1), ByteAt(2)>>

\* C2 (as claimed): the resident byte count stays within 0..cap
C2_SizeWithinCap == 0 <= size /\ size <= cap

\* C3 (as claimed): a push of N bytes into free space F < N returns only
\* after the consumer took at least N - F bytes out, with all N bytes
\* written in order and total_pushed grown by N
C3_PushWaitsForConsumer ==
    [][(PushReturns /\ pushInfo'.F < pushInfo'.N) =>
          /\ pushInfo'.consumed >= pushInfo'.N - pushInfo'.F
          /\ written_total' = pushInfo'.N
          /\ total_pushed' = total_pushed + pushInfo'.N
          /\ SubSeq(ringLog', Len(ringLog') - pushInfo'.N + 1, Len(ringLog')) = pdata'
      ]_vars

\* C4: every read_cb call returns in one step (the action has no guard and
\* no wait), with exactly min(want_bytes, size) bytes, 0 on an empty buffer
\* with or without eof, and moves pos up and size down by the number of
\* bytes returned
C4_ReadNeverBlocks ==
    [][ConsumerStep("read") => \A esize \in ElemSizes, nmemb \in 0..MaxNmemb :
          read_cb(esize, nmemb) =>
                LET n == Min(esize * nmemb, size)
                IN /\ last'.op = "read" /\ last'.n = n
                   /\ Len(readOut') = Len(readOut) + n
                   /\ pos' = pos + n
                   /\ size' = size - n
                   /\ (size = 0 => last'.ret = 0)
      ]_vars

\* C4 witness: a read of 2 bytes that wrapped at the end of a ring of
\* capacity 2 and emptied it
C4_Witness ==
    /\ last.op = "read" /\ last.n = 2
    /\ cap = 2 /\ head = 1 /\ size = 0

C6_ReadsAfterSeekAreOriginal ==
    seeked =>
        LET base == pos - Len(readOut)
        IN \A i \in 1..Len(readOut) :
              base + i <= offered /\ readOut[i] = ByteAt(base + i - 1)

\* C7 (as claimed): a read of 0 bytes taken after VFStreamMarkEOF and a
\* read of 0 bytes taken before it differ in what the caller can observe
C7_EofZeroReadDistinguishable ==
    \A a, b \in zeroReads : a.eof # b.eof => a.view # b.view

--------------------------------------------------------------------------
(***************************************************************************)
(* Claims about the decode session.                                        *)
(***************************************************************************)
\* C8: the session is Ready (initialized = 1) only with headersParsed = 3,
\* and is Ready with headersParsed = 3 unless the engine rejected the setup;
\* headersParsed stays within 0..3 and equals the number of header packets
\* that vorbis_synthesis_headerin accepted since the session was created or
\* reset, so it grows by one per accepted header packet and not at all on a
\* rejected one.
C8_ReadyAfterThirdHeader ==
    /\ ctx.headersParsed \in 0..3
    /\ ctx.initialized = 1 => ctx.headersParsed = 3
    /\ (ctx.headersParsed = 3 /\ SynthesisInitOk(ctx)) => ctx.initialized = 1
    /\ ctx.headersParsed = obs.headerinOk

\* C8 witness: a session that became Ready although an earlier call on it
\* returned an error.
C8_Witness ==
    /\ ctx.initialized = 1
    /\ ctx.headersParsed = 3
    /\ obs.headerinOk = 3
    /\ obs.submitError
    /\ obs.ret = OGGVORBIS_SUCCESS

\* C9: a packet reaches vorbis_synthesis only in a session whose synthesis
\* initialization succeeded.
C9_DecodeOnlyWhenReady == ~obs.synthUnready

\* C10: once a valid stream with exactly one undecodable audio packet has
\* been submitted in whole pages and the collector has run after every
\* submit, the non-empty extractions number the decodable audio packets, no
\* submit returned an error, and every PCM block produced was extracted.
C10_OneBadPacketCostsOneBlock ==
    (feed.pend = 0 /\ obs.collected /\ feed.hdrs = 3 /\ feed.bad = 1) =>
        /\ obs.extracted = feed.good
        /\ obs.extracted = obs.produced
        /\ ~obs.submitError

\* runs of at most one packet, to put after a packet under test
ShortRuns == {<<>>} \cup {<<p>> : p \in Packets}

\* C11: in a Ready session, with or without a current PCM block, the packet
\* loop run on a packet that vorbis_synthesis rejects and on any packets
\* after it ends with the same session fields (granulePosition,
\* totalSamples, currentSample and the PCM block among them), the same return
\* value and the same number of PCM blocks as the loop run on the packets
\* after it alone: the packet is skipped, the packets after it are
\* processed, and it causes no error.
C11_FailedPacketIsSkipped ==
    (ctx.initialized = 1 /\ ctx.os = <<>>) =>
        \A bad \in {p \in Packets : ~SynthesisOk(ctx, p)}, post \in ShortRuns :
            LET with == PacketLoop([ctx EXCEPT !.os = <<bad>> \o post], obs)
                without == PacketLoop([ctx EXCEPT !.os = post], obs)
            IN /\ with.c = without.c
               /\ with.err = without.err
               /\ with.o.produced = without.o.produced

\* C11 witness: a valid stream was submitted without an error although its
\* undecodable packet was followed, in its page, by a packet that decoded
C11_Witness ==
    /\ ctx.initialized = 1
    /\ feed.bad = 1
    /\ feed.pend = 0
    /\ obs.resumed
    /\ ~obs.submitError

\* a packet that a Ready session decodes (vorbis_synthesis and
\* vorbis_synthesis_blockin succeed)
Decodes(c, pkt) == SynthesisOk(c, pkt) /\ BlockinOk(pkt)

\* C12: totalSamples >= granulePosition in every reachable state; in a
\* Ready session a packet that decodes with a granule position >= 0 leaves
\* totalSamples at the larger of its previous value and that position, and
\* any other packet leaves it alone; and no step other than a reset makes
\* totalSamples smaller.
C12_TotalSamplesMonotone ==
    /\ [](/\ ctx.totalSamples >= ctx.granulePosition
          /\ (ctx.initialized = 1 /\ ctx.headersParsed = 3) =>
                \A pkt \in Packets :
                    LET before == ctx.totalSamples
                        after == AudioPacket(ctx, obs, pkt).c.totalSamples
                    IN IF Decodes(ctx, pkt) /\ pkt.a >= 0
                       THEN /\ after >= before /\ after >= pkt.a
                            /\ after \in {before, pkt.a}
                       ELSE after = before)
    /\ [][OggVorbisDecoderReset \/ ctx'.totalSamples >= ctx.totalSamples]_vars

\* C12 witness: a packet with granule position 1 was decoded after a packet
\* with granule position 2
C12_Witness ==
    /\ ctx.initialized = 1
    /\ ctx.granulePosition = 1
    /\ ctx.totalSamples = 2

\* the characters that occur in a string
CharsOf(s) == {s[i] : i \in 1..Len(s)}

\* C13: once the third header is parsed the comment table has one entry
\* per raw comment string, in the order of the strings; the entry of a
\* string with a '=' has a key without '=' and key, '=' and value make up
\* the string, and the entry of a string without '=' has the empty key and
\* the string as its value.
C13_CommentTableSplitsAtFirstEquals ==
    ctx.initialized = 1 =>
        /\ ctx.commentCount = Len(feed.comments)
        /\ Len(ctx.commentKeys) = ctx.commentCount
        /\ Len(ctx.commentValues) = ctx.commentCount
        /\ \A i \in 1..ctx.commentCount :
              LET s == feed.comments[i]
                  key == ctx.commentKeys[i]
                  value == ctx.commentValues[i]
              IN IF "=" \in CharsOf(s)
                 THEN "=" \notin CharsOf(key) /\ key \o <<"=">> \o value = s
                 ELSE key = <<>> /\ value = s

\* C13 witness: the table of a comment with two '=' followed by a comment
\* without any
C13_Witness ==
    /\ ctx.initialized = 1
    /\ feed.comments = << <<"=", "=">>, <<"a", "a">> >>
    /\ ctx.commentKeys = << <<>>, <<>> >>
    /\ ctx.commentValues = << <<"=">>, <<"a", "a">> >>

\* the session after one OggVorbisDecoderProcessData call on a new session
\* with the whole of stream
SingleCall(stream) == ProcessPages(SyncWrite(FreshContext, stream), NoObs)

\* C14: however a valid stream is cut into OggVorbisDecoderProcessData
\* calls, every call returns success, and after the last call the header
\* phase, the initialized flag, the granule position, the total-sample
\* estimate and the data left in the sync buffer are those of one call that
\* is given everything handed over so far.
C14_SplitIndependent ==
    LET whole == SingleCall(feed.sent)
    IN /\ obs.ret = OGGVORBIS_SUCCESS
       /\ ~obs.submitError
       /\ whole.err = OGGVORBIS_SUCCESS
       /\ ctx.headersParsed = whole.c.headersParsed
       /\ ctx.initialized = whole.c.initialized
       /\ ctx.granulePosition = whole.c.granulePosition
       /\ ctx.totalSamples = whole.c.totalSamples
       /\ ctx.oy = whole.c.oy

\* C14 witness: a Ready session with a granule position, whose last call
\* ended in the middle of a page, completed no page and returned success
C14_Witness ==
    /\ ctx.initialized = 1
    /\ ctx.granulePosition = 1
    /\ ctx.totalSamples = 1
    /\ feed.pend = 1
    /\ Len(ctx.oy.data) = MaxChunk
    /\ obs.ret = OGGVORBIS_SUCCESS

\* the session fields that packet processing sets; os and oy hold the input
\* that is still waiting
PacketFields(c) ==
    <<c.headersParsed, c.initialized, c.vi, c.granulePosition, c.totalSamples,
      c.currentSample, c.pcmOutput, c.pcmSamples, c.pcmChannels, c.vc,
      c.commentCount, c.commentKeys, c.commentValues>>

\* a page that may be buffered behind the page under test
LaterPages == {<<>>} \cup {<<PageStart(s, 1), p>> : s \in Serials, p \in Packets}

\* the outcome of the submit call that hands over a page of serial number s
\* with packet pkt and the packets post, and then the page later
SubmitPage(s, pkt, post, later) ==
    LET c0 == [ctx EXCEPT !.pcmOutput = 0, !.pcmSamples = 0, !.pcmChannels = 0]
        data == <<PageStart(s, 1 + Len(post)), pkt>> \o post \o later
    IN ProcessPages(SyncWrite(c0, data), obs)

\* C15: between calls, with nothing buffered (whatever was processed before
\* has made the session what it is), a submit whose first packet or page
\* yields an error returns that error, leaves the later packets of the page
\* queued and the later page in the sync buffer, and leaves every field that
\* packet processing sets as it was when the call had cleared the PCM block.
C15_FirstErrorEndsCall ==
    (ctx.os = <<>> /\ ctx.oy.data = <<>>) =>
        \A s \in Serials, pkt \in Packets, post \in ShortRuns, later \in LaterPages :
            LET first == SubmitPage(s, pkt, <<>>, <<>>)
                r == SubmitPage(s, pkt, post, later)
                c0 == [ctx EXCEPT !.pcmOutput = 0, !.pcmSamples = 0, !.pcmChannels = 0]
            IN first.err # OGGVORBIS_SUCCESS =>
                   /\ r.err = first.err
                   /\ r.c.oy.data = later
                   /\ r.c.os = IF r.err = OGGVORBIS_ERROR_INVALID_STREAM THEN <<>> ELSE post
                   /\ PacketFields(r.c) = PacketFields(c0)

\* C16: in every reachable state, the states of a push that has written
\* part of its bytes and waits for space included, pos <= total_pushed.
C16_PosWithinTotalPushed == pos <= total_pushed

\* C17: a consumer step that frees space while the producer waits in
\* VFStreamPush wakes it, and under weak fairness every VFStreamPush returns.
C17_BlockedPushIsWokenAndReturns ==
    /\ [][(ppc = "wait" /\ size' < size) => ppc' = "woken"]_vars
    /\ (ppc # "idle") ~> (ppc = "idle")

\* C18: a seek_cb that returns 0 moves head by the distance from pos to its
\* target modulo cap, changes size by the negation of the distance, sets pos
\* to the target, leaves tail, total_pushed, eof and the stored bytes as they
\* were, and writes nothing into the buffer.
C18_SeekMovesHeadSizePosOnly ==
    [][\A offset \in Offsets, whence \in Whences :
          (/\ ConsumerStep("seek")
           /\ SeekReturn(offset, whence) = 0
           /\ seek_cb(offset, whence)) =>
              LET d == SeekTarget(offset, whence) - pos
              IN /\ head' = (head + d) % cap
                 /\ size' = size - d
                 /\ pos' = SeekTarget(offset, whence)
                 /\ UNCHANGED <<tail, total_pushed, eof, buf, cap>>
                 /\ UNCHANGED <<ringLog, written_total, ppc>>
      ]_vars

\* the fields of struct VFRemoteStream, the stored bytes included
StreamFields == <<buf, cap, head, tail, size, eof, pos, total_pushed>>

\* C19: a seek_cb with an unknown whence, with a target below 0 or above
\* total_pushed, with a forward distance above size, or with a backward
\* distance above already_consumed returns -1 (it takes one of the four
\* refusing returns); a seek_cb that takes a refusing return leaves every
\* field of the stream, the producer and what has been read as they were,
\* so the reads possible afterwards are those possible before.
C19_FailedSeekChangesNothing ==
    /\ [](\A offset \in Offsets, whence \in Whences \cup {SEEK_BAD} :
             LET t == SeekTarget(offset, whence)
                 d == t - pos
             IN (\/ whence \notin Whences
                 \/ t < 0 \/ t > total_pushed
                 \/ (d > 0 /\ d > size)
                 \/ (d < 0 /\ -d > pos - (total_pushed - size)))
                    => SeekReturn(offset, whence) = -1)
    /\ [][(SeekRefused /\ UNCHANGED sessVars) =>
             /\ last'.ret = -1
             /\ UNCHANGED StreamFields
             /\ UNCHANGED <<ppc, readOut, ringLog>>
       ]_vars

\* C19 witness: a refused seek_cb on a stream with resident bytes, consumed
\* bytes and a set eof
C19_Witness ==
    /\ last.op = "seek" /\ last.ret = -1
    /\ size > 0 /\ pos > 0 /\ eof = 1 /\ head > 0

C21_SynthesisInitAtMostOnce ==
    /\ [](/\ obs.synthInits <= 1 /\ obs.tables <= 1
          /\ (obs.synthInits = 1) <=> (ctx.headersParsed = 3)
          /\ (obs.tables = 1) <=> (ctx.initialized = 1))
    /\ [][(obs'.synthInits > obs.synthInits \/ obs'.tables > obs.tables) =>
              (ctx.headersParsed < 3 /\ ctx'.headersParsed = 3)]_vars

\* C21 witness: a Ready session, set up once, on which a later
\* OggVorbisDecoderInit call returned an error
C21_Witness ==
    /\ ctx.initialized = 1 /\ obs.synthInits = 1 /\ obs.tables = 1
    /\ ~obs.collected
    /\ obs.ret = OGGVORBIS_ERROR_INVALID_HEADER

\* the pages of one packet
OnePacketPages ==
    {[serial |-> s, packets |-> <<p>>] : s \in Serials, p \in SetupPackets}

\* C22: processOggPage leaves streamInitialized = 1 and, on a stream that is
\* set up, the serial number it had, on a stream that is not, the serial
\* number of the page; a call that does not go through OggVorbisDecoderReset
\* leaves a stream that is set up set up, with its serial number.
C22_SerialLatchedOnce ==
    /\ [](\A page \in OnePacketPages :
             LET r == processOggPage(ctx, obs, page)
             IN /\ r.c.streamInitialized = 1
                /\ r.c.serialno = IF ctx.streamInitialized = 1 THEN ctx.serialno
                                                              ELSE page.serial)
    /\ [][(ctx.streamInitialized = 1 /\ ~obs'.didReset) =>
              (ctx'.streamInitialized = 1 /\ ctx'.serialno = ctx.serialno)]_vars

\* C22 witness: a stream set up from a page of serial number 2, after which
\* a page of serial number 1 was refused
C22_Witness ==
    /\ ctx.streamInitialized = 1 /\ ctx.serialno = 2
    /\ obs.ret = OGGVORBIS_ERROR_INVALID_STREAM
    /\ ~obs.didReset

C24_NoBlockIsNotAnError ==
    /\ []((ctx.pcmOutput = 0 \/ ctx.pcmSamples <= 0) =>
              /\ GetPCMDataResult(ctx).err = OGGVORBIS_SUCCESS
              /\ GetPCMDataResult(ctx).n = 0)
    /\ [][(feed'.fed > feed.fed /\ ctx'.pcmOutput # 0) =>
              obs'.produced > obs.produced]_vars

\* C25: when a valid stream is handed to OggVorbisDecoderInit in pieces, the
\* session has parsed as many headers as one call given everything handed
\* over so far would have (no piece is lost), and the call that hands over
\* the end of the page of the third header packet returns success and leaves
\* the session Ready.
C25_InitInPiecesLosesNothing ==
    /\ [](ctx.headersParsed = SingleCall(feed.sent).c.headersParsed)
    /\ [][(/\ SingleCall(feed.sent).c.headersParsed < 3
           /\ SingleCall(feed'.sent).c.headersParsed = 3) =>
              (ctx'.initialized = 1 /\ obs'.ret = OGGVORBIS_SUCCESS)]_vars


(* C26: in every reachable state of the ring the cursors agree with the    *)
(* resident size: head < cap, tail < cap and tail = (head + size) mod cap. *)
(* A negative head stands for the size_t that line 200 wraps around.       *)
C26_CursorsConsistent ==
    /\ 0 <= head /\ head < cap
    /\ 0 <= tail /\ tail < cap
    /\ tail = (head + size) % cap


\* C27: OggVorbisDecoderReset, from any reachable session state, gives the
\* state of a newly created session and is idempotent; a session that was
\* reset and is then given a new stream returns and holds what a new
\* session holds after one call with the same stream.
C27_ResetGivesFreshSession ==
    LET whole == SingleCall(feed.sent)
    IN /\ ResetContext(ctx) = FreshContext
       /\ ResetContext(ResetContext(ctx)) = ResetContext(ctx)
       /\ feed.keep =>
              /\ obs.ret = OGGVORBIS_SUCCESS
              /\ whole.err = OGGVORBIS_SUCCESS
              /\ [ctx EXCEPT !.pcmOutput = 0, !.pcmSamples = 0, !.pcmChannels = 0]
                   = [whole.c EXCEPT !.pcmOutput = 0, !.pcmSamples = 0, !.pcmChannels = 0]

\* C27 witness: a session that returned an error before it was reset is
\* Ready again and has decoded a block of the new stream
C27_Witness ==
    /\ feed.keep
    /\ obs.submitError
    /\ obs.didReset = FALSE
    /\ ctx.initialized = 1
    /\ ctx.totalSamples = 1
    /\ ctx.serialno = 1

====
